---- MODULE Spec2Model ----
(***************************************************************************)
(* Model of the CheckboxTree state engine of VEuPathDB/CoreUI              *)
(* (src/unnamed/part_004): createStatefulTree, createIsLeafVisible,        *)
(* applyPropsToStatefulTree and the useTreeState hook.                     *)
(*                                                                         *)
(* A node object is a record [id, obj, children, state, stateObj].  obj is  *)
(* the identity of the JavaScript object: two node objects are the same    *)
(* object iff they agree on id and obj.  children holds references         *)
(* [id, obj] to the child objects, state is the content of the node's      *)
(* __expandableTreeState object and stateObj the identity of that object.  *)
(* A tree is the map from node ids to the node objects reachable from its  *)
(* root.                                                                   *)
(***************************************************************************)
EXTENDS Integers, Sequences, FiniteSets, TLC

VARIABLES
    props,          \* the props of the latest render
    root,           \* the tree handed to applyPropsToStatefulTree (statefulTree)
    treeState,      \* useState: [isLeafVisible, generated]
    applied,        \* the props the call that made treeState was given
    timers,         \* the pending setTimeout(performUpdate, 250) calls
    cleanup,        \* the timerId cancel() of the last effect clears, 0 if none
    lastChange,     \* the prop the latest render changed
    effectPending,  \* a render was committed and its effect has not run yet
    edits,          \* renders and clicks since the first render
    burst,          \* renders that changed the search term since treeState was made
    event           \* the handler the step before called and the callbacks it made

vars == <<props, root, treeState, applied, timers, cleanup, lastChange,
          effectPending, edits, burst, event>>

(***************************************************************************)
(* The host's tree (props.tree) and its accessors.                         *)
(***************************************************************************)
Nodes == {"root", "A", "B", "l1", "l2", "l3"}

tree == "root"

getNodeChildren(node) ==
    CASE node = "root" -> <<"A", "B">>
      [] node = "A"    -> <<"l1", "l2">>
      [] node = "B"    -> <<"l3">>
      [] OTHER         -> <<>>

getNodeId(node) == node

\* keywords the host's predicate looks for in a node
Keywords(node) ==
    CASE node = "A"  -> {"a"}
      [] node = "l1" -> {"l"}
      [] node = "l3" -> {"l"}
      [] OTHER       -> {}

searchPredicate(node, terms) ==
    \A i \in 1..Len(terms) : terms[i] \in Keywords(node)

(***************************************************************************)
(* SelectTree/Utils                                                        *)
(***************************************************************************)
Range(s) == {s[i] : i \in 1..Len(s)}

isLeaf(node) == Len(getNodeChildren(node)) = 0

RECURSIVE getLeaves(_)
getLeaves(node) ==
    IF isLeaf(node) THEN <<node>>
    ELSE LET kids == getNodeChildren(node)
             F[i \in 0..Len(kids)] ==
                 IF i = 0 THEN <<>> ELSE F[i - 1] \o getLeaves(kids[i])
         IN  F[Len(kids)]

RECURSIVE getBranches(_)
getBranches(node) ==
    IF isLeaf(node) THEN <<>>
    ELSE LET kids == getNodeChildren(node)
             F[i \in 0..Len(kids)] ==
                 IF i = 0 THEN <<>> ELSE F[i - 1] \o getBranches(kids[i])
         IN  <<node>> \o F[Len(kids)]

\* the nodes in the order mapStructure finishes them: children first
RECURSIVE PostOrder(_)
PostOrder(node) ==
    LET kids == getNodeChildren(node)
        F[i \in 0..Len(kids)] ==
            IF i = 0 THEN <<>> ELSE F[i - 1] \o PostOrder(kids[i])
    IN  F[Len(kids)] \o <<node>>

\* first occurrences, in order (Array.from(new Set(list)), Seq.uniq)
RECURSIVE Uniq(_)
Uniq(list) ==
    IF Len(list) = 0 THEN <<>>
    ELSE LET front == Uniq(SubSeq(list, 1, Len(list) - 1))
             last  == list[Len(list)]
         IN  IF last \in Range(front) THEN front ELSE Append(front, last)

addOrRemove(list, id) ==
    IF id \in Range(list)
    THEN SelectSeq(list, LAMBDA x : x # id)
    ELSE Append(list, id)

\* a search term is a sequence of characters
Lower(c) == IF c = "A" THEN "a" ELSE IF c = "L" THEN "l" ELSE c

RECURSIVE parseSearchQueryString(_)
parseSearchQueryString(searchTerm) ==
    IF Len(searchTerm) = 0 THEN <<>>
    ELSE LET front == parseSearchQueryString(SubSeq(searchTerm, 1, Len(searchTerm) - 1))
             c     == searchTerm[Len(searchTerm)]
         IN  IF c = " " THEN front ELSE Append(front, Lower(c))

PostOrderOfTree == PostOrder(tree)

Leaves == Range(getLeaves(tree))
Branches == Range(getBranches(tree))

Descendants(node) == Range(PostOrder(node)) \ {node}
Ancestors(node) == {a \in Nodes : node \in Descendants(a)}
DescendantLeaves(node) == {d \in Descendants(node) : isLeaf(d)}

(***************************************************************************)
(* Optional props: null / undefined against a supplied list                *)
(***************************************************************************)
Null == [null |-> TRUE, val |-> <<>>]
Some(list) == [null |-> FALSE, val |-> list]

(***************************************************************************)
(* Node objects                                                            *)
(***************************************************************************)
Ref(o) == [id |-> o.id, obj |-> o.obj]

getNodeState(node) == node.state

getStatefulChildren(node) == node.children

\* a missing field reads as undefined, which is falsy
Truthy(state, field) == field \in DOMAIN state /\ state[field]

\* Object.assign(target, source)
Assign(target, source) ==
    [k \in DOMAIN target \cup DOMAIN source |->
        IF k \in DOMAIN source THEN source[k] ELSE target[k]]

\* variant: a leaf is given the branch flags too
GetInitialNodeStateAllFlags(node) ==
    [isSelected |-> FALSE, isVisible |-> TRUE,
     isExpanded |-> FALSE, isIndeterminate |-> FALSE]

getInitialNodeState(node) ==
    Assign([isSelected |-> FALSE, isVisible |-> TRUE],
           IF isLeaf(node) THEN <<>>
           ELSE [isExpanded |-> FALSE, isIndeterminate |-> FALSE])

\* objects made by createStatefulTree have identity 0
createStatefulTree ==
    [n \in Nodes |->
        [id       |-> n,
         obj      |-> 0,
         children |-> [i \in 1..Len(getNodeChildren(n)) |->
                          [id |-> getNodeChildren(n)[i], obj |-> 0]],
         state    |-> getInitialNodeState(n),
         stateObj |-> 0]]

(***************************************************************************)
(* Search state                                                            *)
(***************************************************************************)
isFiltered(searchTerm, isAdditionalFilterApplied) ==
    Len(searchTerm) > 0 \/ isAdditionalFilterApplied

\* variant: isSearchable takes no part
IsActiveSearchAnyMode(isAdditionalFilterApplied, isSearchable, searchTerm) ==
    isFiltered(searchTerm, isAdditionalFilterApplied)

isActiveSearch(isAdditionalFilterApplied, isSearchable, searchTerm) ==
    isSearchable /\ isFiltered(searchTerm, isAdditionalFilterApplied)

(***************************************************************************)
(* createIsLeafVisible.  The returned function is the record               *)
(* [const, visibleLeaves]: const is the function (nodeId) => true, else    *)
(* the function is membership in visibleLeaves.                            *)
(***************************************************************************)
\* variant: a match is not handed down to the children
NodeMatchesOwnOnly(node, parentMatches, searchTerms) ==
    searchPredicate(node, searchTerms)

nodeMatches(node, parentMatches, searchTerms) ==
    IF parentMatches THEN parentMatches ELSE searchPredicate(node, searchTerms)

\* variant: an empty filtered list counts as no list
LeafPassesFilterEmptyAsUnset(nodeId, filteredList) ==
    filteredList.null \/ Len(filteredList.val) = 0 \/ nodeId \in Range(filteredList.val)

leafPassesFilter(nodeId, filteredList) ==
    filteredList.null \/ nodeId \in Range(filteredList.val)

RECURSIVE addVisibleLeaves(_,_,_,_)
addVisibleLeaves(node, parentMatches, searchTerms, filteredList) ==
    LET matches == nodeMatches(node, parentMatches, searchTerms)
    IN  IF isLeaf(node)
        THEN IF matches /\ leafPassesFilter(getNodeId(node), filteredList)
             THEN {getNodeId(node)} ELSE {}
        ELSE UNION {addVisibleLeaves(getNodeChildren(node)[i], matches,
                                     searchTerms, filteredList) :
                        i \in 1..Len(getNodeChildren(node))}

\* variant: the tree is walked whatever the props are
CreateIsLeafVisibleAlwaysWalk(P) ==
    [const |-> FALSE,
     visibleLeaves |-> addVisibleLeaves(tree, FALSE,
                          parseSearchQueryString(P.searchTerm), P.filteredList)]

createIsLeafVisible(P) ==
    IF ~isActiveSearch(P.isAdditionalFilterApplied, P.isSearchable, P.searchTerm)
       /\ P.filteredList.null
    THEN [const |-> TRUE, visibleLeaves |-> {}]
    ELSE [const |-> FALSE,
          visibleLeaves |-> addVisibleLeaves(tree, FALSE,
                               parseSearchQueryString(P.searchTerm), P.filteredList)]

\* the nodes addVisibleLeaves calls searchPredicate for: those no ancestor of
\* which matched
RECURSIVE predicateCalls(_,_,_)
predicateCalls(node, parentMatches, searchTerms) ==
    LET matches == nodeMatches(node, parentMatches, searchTerms)
    IN  (IF parentMatches THEN {} ELSE {node})
            \cup UNION {predicateCalls(getNodeChildren(node)[i], matches, searchTerms) :
                            i \in 1..Len(getNodeChildren(node))}

\* the calls of searchPredicate one call of createIsLeafVisible makes
searchPredicateCalls(P) ==
    IF createIsLeafVisible(P).const
    THEN {}
    ELSE predicateCalls(tree, FALSE, parseSearchQueryString(P.searchTerm))

\* calling the function createIsLeafVisible returned
isLeafVisible(f, nodeId) == f.const \/ nodeId \in f.visibleLeaves

(***************************************************************************)
(* applyPropsToStatefulTree.  env holds what mapFunction closes over:      *)
(* the (trimmed) props, selectedSet, expandedSet, expansionListProvided,   *)
(* isLeafVisible, and fresh, the identity given to the objects the call    *)
(* allocates.                                                              *)
(***************************************************************************)
\* variant: the selected list is not trimmed under single-pick
TrimNothing(isMultiPick, selectedList) ==
    selectedList

trimSelectedList(isMultiPick, selectedList) ==
    IF ~isMultiPick /\ Len(selectedList) > 1
    THEN <<selectedList[1]>>
    ELSE selectedList

\* variant: an empty expanded list counts as no list
ResolveEmptyAsUnset(propsExpandedList, stateExpandedList) ==
    IF ~propsExpandedList.null /\ Len(propsExpandedList.val) > 0
    THEN propsExpandedList
    ELSE stateExpandedList

resolveExpandedList(propsExpandedList, stateExpandedList) ==
    IF ~propsExpandedList.null THEN propsExpandedList ELSE stateExpandedList

leafNewIsSelected(nodeId, env) ==
    env.isSelectable /\ nodeId \in env.selectedSet

leafNewIsVisible(nodeId, env) ==
    isLeafVisible(env.isLeafVisible, nodeId)

\* the loop over the children of a branch: what it finds in the mapped
\* children, and whether one of them is not the object it was
inspectChildren(node, mappedChildren) ==
    [modifyThisNode          |-> \E i \in 1..Len(getStatefulChildren(node)) :
                                     Ref(mappedChildren[i]) # getStatefulChildren(node)[i],
     selectedChildFound      |-> \E i \in 1..Len(getStatefulChildren(node)) :
                                     Truthy(getNodeState(mappedChildren[i]), "isSelected"),
     unselectedChildFound    |-> \E i \in 1..Len(getStatefulChildren(node)) :
                                     ~Truthy(getNodeState(mappedChildren[i]), "isSelected"),
     indeterminateChildFound |-> \E i \in 1..Len(getStatefulChildren(node)) :
                                     Truthy(getNodeState(mappedChildren[i]), "isIndeterminate"),
     visibleChildFound       |-> \E i \in 1..Len(getStatefulChildren(node)) :
                                     Truthy(getNodeState(mappedChildren[i]), "isVisible")]

\* variant: one selected child is enough
BranchNewIsSelectedAny(found) ==
    found.selectedChildFound

branchNewIsSelected(found) ==
    ~found.indeterminateChildFound /\ ~found.unselectedChildFound

\* variant: only an indeterminate child makes a branch indeterminate
BranchNewIsIndeterminateChildOnly(found) ==
    ~branchNewIsSelected(found) /\ found.indeterminateChildFound

branchNewIsIndeterminate(found) ==
    ~branchNewIsSelected(found)
    /\ (found.indeterminateChildFound \/ found.selectedChildFound)

\* variant: a branch stays visible whatever its children are
BranchNewIsVisibleAlways(found) ==
    TRUE

branchNewIsVisible(found) ==
    found.visibleChildFound

\* variant: only a mixed selection opens the branch, under single-pick too
AutoExpandedMixedOnly(found, isMultiPick) ==
    \/ found.indeterminateChildFound
    \/ found.selectedChildFound /\ found.unselectedChildFound

autoExpanded(found, isMultiPick) ==
    \/ found.indeterminateChildFound
    \/ /\ found.selectedChildFound
       /\ (~isMultiPick \/ found.unselectedChildFound)

\* variant: an active search does not force a visible branch open
BranchNewIsExpandedNoSearch(nodeId, found, env) ==
    IF env.expansionListProvided
    THEN nodeId \in env.expandedSet
    ELSE autoExpanded(found, env.isMultiPick)

branchNewIsExpanded(nodeId, found, env) ==
    \/ /\ isActiveSearch(env.isAdditionalFilterApplied, env.isSearchable, env.searchTerm)
       /\ branchNewIsVisible(found)
    \/ IF env.expansionListProvided
       THEN nodeId \in env.expandedSet
       ELSE autoExpanded(found, env.isMultiPick)

leafNewState(node, env) ==
    [isSelected |-> leafNewIsSelected(getNodeId(node.id), env),
     isVisible  |-> leafNewIsVisible(getNodeId(node.id), env)]

branchNewState(node, found, env) ==
    [isSelected      |-> branchNewIsSelected(found),
     isVisible       |-> branchNewIsVisible(found),
     isIndeterminate |-> branchNewIsIndeterminate(found),
     isExpanded      |-> branchNewIsExpanded(getNodeId(node.id), found, env)]

leafModified(state, new) ==
    \/ new.isSelected # state.isSelected
    \/ new.isVisible # state.isVisible

\* variant: a replaced child does not replace its parent
BranchModifiedOwnOnly(childModified, state, new) ==
    \/ new.isSelected # state.isSelected
    \/ new.isIndeterminate # state.isIndeterminate
    \/ new.isExpanded # state.isExpanded
    \/ new.isVisible # state.isVisible

branchModified(childModified, state, new) ==
    \/ childModified
    \/ new.isSelected # state.isSelected
    \/ new.isIndeterminate # state.isIndeterminate
    \/ new.isExpanded # state.isExpanded
    \/ new.isVisible # state.isVisible

\* variant: newState is the node's own state object, not a copy of it
NewStateObjectShared(node, fresh) ==
    node.stateObj

\* let newState = Object.assign({}, getNodeState(node)): the object the new
\* flags are written to is a copy the call allocates
newStateObject(node, fresh) ==
    fresh

\* Object.assign({}, node, {children: mappedChildren, state: newState})
newNode(node, mappedChildren, newState, fresh) ==
    [id       |-> node.id,
     obj      |-> fresh,
     children |-> [i \in 1..Len(mappedChildren) |-> Ref(mappedChildren[i])],
     state    |-> newState,
     stateObj |-> newStateObject(node, fresh)]

mapFunction(node, mappedChildren, env) ==
    IF isLeaf(node.id)
    THEN LET new == leafNewState(node, env)
         IN  IF leafModified(getNodeState(node), new)
             THEN newNode(node, mappedChildren, Assign(getNodeState(node), new), env.fresh)
             ELSE node
    ELSE LET found == inspectChildren(node, mappedChildren)
             new   == branchNewState(node, found, env)
         IN  IF branchModified(found.modifyThisNode, getNodeState(node), new)
             THEN newNode(node, mappedChildren, Assign(getNodeState(node), new), env.fresh)
             ELSE node

\* mapStructure(mapFunction, getStatefulChildren, root): the children are
\* mapped first, then the node.  The value is the map from the ids of the
\* subtree of id to their mapped node objects.
RECURSIVE mapStructure(_,_,_)
RECURSIVE mapChildren(_,_,_,_)
mapChildren(kids, upTo, statefulTree, env) ==
    IF upTo = 0 THEN <<>>
    ELSE mapStructure(kids[upTo].id, statefulTree, env)
             @@ mapChildren(kids, upTo - 1, statefulTree, env)

mapStructure(id, statefulTree, env) ==
    LET node  == statefulTree[id]
        kids  == getStatefulChildren(node)
        below == mapChildren(kids, Len(kids), statefulTree, env)
    IN  (id :> mapFunction(node, [i \in 1..Len(kids) |-> below[kids[i].id]], env))
            @@ below

applyEnv(P, visible, stateExpandedList, fresh) ==
    LET selectedList == trimSelectedList(P.isMultiPick, P.selectedList)
        expandedList == resolveExpandedList(P.expandedList, stateExpandedList)
    IN  [isSelectable              |-> P.isSelectable,
         isSearchable              |-> P.isSearchable,
         isMultiPick               |-> P.isMultiPick,
         searchTerm                |-> P.searchTerm,
         isAdditionalFilterApplied |-> P.isAdditionalFilterApplied,
         expansionListProvided     |-> ~expandedList.null,
         selectedSet               |-> Range(selectedList),
         expandedSet               |-> Range(expandedList.val),
         expandedArray             |-> Uniq(expandedList.val),
         isLeafVisible             |-> visible,
         fresh                     |-> fresh]

\* the mapped children mapFunction was given for node id
mappedChildrenOf(id, newStatefulTree) ==
    [i \in 1..Len(getNodeChildren(id)) |-> newStatefulTree[getNodeChildren(id)[i]]]

\* variant: the list is filled parents first
GeneratedParentsFirst(statefulTree, newStatefulTree, env) ==
    SelectSeq(getBranches(tree),
              LAMBDA n : /\ ~env.expansionListProvided
                         /\ branchNewIsExpanded(getNodeId(n),
                                inspectChildren(statefulTree[n],
                                    mappedChildrenOf(n, newStatefulTree)), env))

\* generatedExpandedList: a Set filled as the branches are finished, as an array
generatedExpandedList(statefulTree, newStatefulTree, env) ==
    SelectSeq(PostOrderOfTree,
              LAMBDA n : /\ ~isLeaf(n)
                         /\ ~env.expansionListProvided
                         /\ branchNewIsExpanded(getNodeId(n),
                                inspectChildren(statefulTree[n],
                                    mappedChildrenOf(n, newStatefulTree)), env))

applyPropsToStatefulTree(statefulTree, P, visible, stateExpandedList, fresh) ==
    LET env == applyEnv(P, visible, stateExpandedList, fresh)
        newStatefulTree == mapStructure(tree, statefulTree, env)
    IN  [expandedList |-> IF env.expansionListProvided
                          THEN env.expandedArray
                          ELSE generatedExpandedList(statefulTree, newStatefulTree, env),
         statefulTree |-> newStatefulTree]

(***************************************************************************)
(* useTreeState                                                            *)
(***************************************************************************)
ObjsOf(statefulTrees) ==
    UNION {{t[n].obj : n \in Nodes} \cup {t[n].stateObj : n \in Nodes} : t \in statefulTrees}

\* an identity no live object has
FreshObj(liveTrees) ==
    CHOOSE k \in 1..(Cardinality(ObjsOf(liveTrees)) + 1) :
        /\ k \notin ObjsOf(liveTrees)
        /\ \A j \in 1..(k - 1) : j \in ObjsOf(liveTrees)

\* an identity the function object of the current tree state does not have
FreshFn(liveFns) ==
    CHOOSE k \in 1..(Cardinality(liveFns) + 1) :
        /\ k \notin liveFns
        /\ \A j \in 1..(k - 1) : j \in liveFns

\* isLeafVisibleObj is the identity of the function object isLeafVisible
makeTreeState(P, rootArg, fresh, freshFn) ==
    LET visible == createIsLeafVisible(P)
    IN  [isLeafVisible    |-> visible,
         isLeafVisibleObj |-> freshFn,
         generated        |-> applyPropsToStatefulTree(rootArg, P, visible, Null, fresh)]

(***************************************************************************)
(* Inputs                                                                  *)
(***************************************************************************)
MaxSelLen == 3
MaxExpLen == 1
MaxFilterLen == 1

DistinctSeqs(S, maxLen) ==
    {s \in UNION {[1..k -> S] : k \in 0..maxLen} :
        \A i, j \in 1..Len(s) : i # j => s[i] # s[j]}

Prefixes(list, maxLen) ==
    {SubSeq(list, 1, k) : k \in 0..(IF maxLen < Len(list) THEN maxLen ELSE Len(list))}

\* selected lists: the leaves in any order; expanded lists: unset, the first
\* branches mapStructure finishes, or the first of them written twice;
\* filtered lists: unset, or the first leaves
SelectedLists == DistinctSeqs(Leaves, MaxSelLen)
ExpandedLists ==
    LET firstBranches == Prefixes(SelectSeq(PostOrderOfTree, LAMBDA n : ~isLeaf(n)),
                                  MaxExpLen)
    IN  {Null} \cup {Some(l) : l \in firstBranches}
               \cup {Some(l \o l) : l \in {b \in firstBranches : Len(b) = 1}}
FilteredLists == {Null} \cup {Some(l) : l \in Prefixes(getLeaves(tree), MaxFilterLen)}
SearchTerms == {<<>>, <<"A">>, <<"l">>}

PropsDomain ==
    [searchTerm                : SearchTerms,
     isAdditionalFilterApplied : BOOLEAN,
     isSearchable              : BOOLEAN,
     isSelectable              : BOOLEAN,
     isMultiPick               : BOOLEAN,
     selectedList              : SelectedLists,
     expandedList              : ExpandedLists,
     filteredList              : FilteredLists]

\* no handler of the component was called
NoEvent == [handler |-> "none", node |-> "none", arg |-> FALSE, called |-> <<>>]

(***************************************************************************)
(* SpecReconcile: applyPropsToStatefulTree as a function.  The first call  *)
(* is given the tree of createStatefulTree, every later call the tree the  *)
(* call before it returned.                                                *)
(***************************************************************************)
InitReconcile ==
    /\ props \in PropsDomain
    /\ root = createStatefulTree
    /\ treeState = makeTreeState(props, createStatefulTree,
                                 FreshObj({createStatefulTree}), FreshFn({}))
    /\ applied = props
    /\ timers = {}
    /\ cleanup = 0
    /\ lastChange = "mount"
    /\ effectPending = FALSE
    /\ edits = 0
    /\ burst = 0
    /\ event = NoEvent

\* Identities are compared only between the tree a call is given and the
\* tree it returns, so the objects of the tree handed back are renamed 0 (and
\* the visibility function of the call before).
Rebase(statefulTree) ==
    [n \in Nodes |->
        [statefulTree[n] EXCEPT
            !.obj = 0,
            !.stateObj = 0,
            !.children = [i \in 1..Len(@) |-> [id |-> @[i].id, obj |-> 0]]]]

Reconcile(P) ==
    /\ props' = P
    /\ root' = Rebase(treeState.generated.statefulTree)
    /\ treeState' = makeTreeState(P, root', FreshObj({root'}), FreshFn({0}))
    /\ applied' = P
    /\ UNCHANGED <<timers, cleanup, lastChange, effectPending, edits, burst, event>>

ReconcileSelection ==
    \E leaf \in Leaves :
        Reconcile([props EXCEPT !.selectedList = addOrRemove(@, leaf)])

ReconcileSearchTerm ==
    \E term \in SearchTerms \ {props.searchTerm} :
        Reconcile([props EXCEPT !.searchTerm = term])

ReconcileAgain ==
    Reconcile(props)

NextReconcile ==
    \/ ReconcileSelection
    \/ ReconcileSearchTerm
    \/ ReconcileAgain

SpecReconcile == InitReconcile /\ [][NextReconcile]_vars

(***************************************************************************)
(* Spec: the useTreeState hook of a mounted CheckboxTree.  A render with   *)
(* new props commits, then its effect runs (the cleanup of the effect      *)
(* before it first); no timer fires in between.  The initial state is the  *)
(* first render: useState(makeTreeState) has run, the effect has not.      *)
(***************************************************************************)
MaxRenders == 2
TicksPerDelay == 2

\* setTimeout(performUpdate, 250)
DebounceDelay == 250

TimeStep == DebounceDelay \div TicksPerDelay

\* variant: cancel() clears nothing
ClearNothing(pending, timerId) ==
    pending

clearTimeout(pending, timerId) ==
    {t \in pending : t.id # timerId}

\* the timerId setTimeout returns
FreshTimerId(pending) ==
    CHOOSE k \in 1..(Cardinality(pending) + 1) :
        /\ \A t \in pending : t.id # k
        /\ \A j \in 1..(k - 1) : \E t \in pending : t.id = j

\* a timer holds the time since it was set and the props its performUpdate
\* closes over
setTimeout(pending, P) ==
    [id |-> FreshTimerId(pending), elapsed |-> 0, props |-> P]

\* variant: the timeout is 0
TimerDueAtOnce(t) ==
    TRUE

timerDue(t) ==
    t.elapsed = DebounceDelay

\* the props of the first render: a selectable tree with nothing selected and
\* no expansion list, the filtered list unset or empty
MountProps ==
    [searchTerm                : SearchTerms,
     isAdditionalFilterApplied : {FALSE},
     isSearchable              : BOOLEAN,
     isSelectable              : {TRUE},
     isMultiPick               : BOOLEAN,
     selectedList              : {<<>>},
     expandedList              : {Null},
     filteredList              : {Null, Some(<<>>)}]

Init ==
    /\ props \in MountProps
    /\ root = createStatefulTree
    /\ treeState = makeTreeState(props, createStatefulTree,
                                 FreshObj({createStatefulTree}), FreshFn({}))
    /\ applied = props
    /\ timers = {}
    /\ cleanup = 0
    /\ lastChange = "mount"
    /\ effectPending = TRUE
    /\ edits = 0
    /\ burst = 0
    /\ event = NoEvent

\* the host renders the tree with other props, MaxRenders times at most
Render(P, change) ==
    /\ ~effectPending
    /\ P # props
    /\ edits < MaxRenders
    /\ props' = P
    /\ lastChange' = change
    /\ effectPending' = TRUE
    /\ edits' = edits + 1
    /\ burst' = IF change = "searchTerm" THEN burst + 1 ELSE burst
    /\ event' = NoEvent
    /\ UNCHANGED <<root, treeState, applied, timers, cleanup>>

SetSelectedList ==
    \E leaf \in Leaves :
        Render([props EXCEPT !.selectedList = addOrRemove(@, leaf)], "selectedList")

SetSearchTerm ==
    \E term \in SearchTerms :
        Render([props EXCEPT !.searchTerm = term], "searchTerm")

SetExpandedList ==
    \E list \in ExpandedLists :
        Render([props EXCEPT !.expandedList = list], "expandedList")

SetFilteredList ==
    \E list \in FilteredLists :
        Render([props EXCEPT !.filteredList = list], "filteredList")

SetAdditionalFilterApplied ==
    Render([props EXCEPT !.isAdditionalFilterApplied = ~@], "isAdditionalFilterApplied")

\* setTreeState(makeTreeState()), makeTreeState being the callback of the
\* render with props P
performUpdate(P) ==
    /\ treeState' = makeTreeState(P, root,
                                  FreshObj({root, treeState.generated.statefulTree}),
                                  FreshFn({treeState.isLeafVisibleObj}))
    /\ applied' = P
    /\ burst' = 0
    /\ event' = NoEvent

\* the effect of useTreeState: cancel() of the effect before it, then a timer
\* when the search term is not empty, else the update at once
RunEffect ==
    /\ effectPending
    /\ effectPending' = FALSE
    /\ LET pending == clearTimeout(timers, cleanup)
       IN  IF Len(props.searchTerm) > 0
           THEN /\ timers' = pending \cup {setTimeout(pending, props)}
                /\ cleanup' = setTimeout(pending, props).id
                /\ event' = NoEvent
                /\ UNCHANGED <<treeState, applied, burst>>
           ELSE /\ timers' = pending
                /\ cleanup' = 0
                /\ performUpdate(props)
    /\ UNCHANGED <<props, root, lastChange, edits>>

\* time passes while no timer is due
Tick ==
    /\ ~effectPending
    /\ timers # {}
    /\ \A t \in timers : ~timerDue(t)
    /\ timers' = {[t EXCEPT !.elapsed = IF @ + TimeStep < DebounceDelay
                                        THEN @ + TimeStep ELSE DebounceDelay] :
                      t \in timers}
    /\ event' = NoEvent
    /\ UNCHANGED <<props, root, treeState, applied, cleanup, lastChange,
                   effectPending, edits, burst>>

TimerFire ==
    \E t \in timers :
        /\ ~effectPending
        /\ timerDue(t)
        /\ timers' = timers \ {t}
        /\ performUpdate(t.props)
        /\ UNCHANGED <<props, root, cleanup, lastChange, effectPending, edits>>

Next ==
    \/ SetSelectedList
    \/ SetSearchTerm
    \/ SetExpandedList
    \/ SetFilteredList
    \/ SetAdditionalFilterApplied
    \/ RunEffect
    \/ Tick
    \/ TimerFire

Spec == Init /\ [][Next]_vars

(***************************************************************************)
(* The handlers of the CheckboxTree component.  A handler is the function  *)
(* of the latest render: it reads the props P of that render and the tree  *)
(* state ts useTreeState returned to it.  Its value is the sequence of the *)
(* callback calls it makes.                                                *)
(***************************************************************************)
ids(nodes) == [i \in 1..Len(nodes) |-> getNodeId(nodes[i])]

\* idList is never null or undefined for the fetchers below
createLinkHandler(idList, changeHandler) ==
    <<[callback |-> changeHandler, list |-> idList]>>

createExpander(idList) == createLinkHandler(idList, "onExpansionChange")

createSelector(idList) == createLinkHandler(idList, "onSelectionChange")

expandAll == createExpander(ids(getBranches(tree)))

expandNone == createExpander(<<>>)

selectAll == createSelector(ids(getLeaves(tree)))

selectNone == createSelector(<<>>)

\* getLeaves(tree, getNodeChildren).map(getNodeId).filter(treeState.isLeafVisible)
visibleLeafIds(ts) ==
    SelectSeq(ids(getLeaves(tree)), LAMBDA nodeId : isLeafVisible(ts.isLeafVisible, nodeId))

\* variant: the leaves are put in front of the selected list
AddVisibleInFront(P, ts) ==
    createSelector(Uniq(visibleLeafIds(ts) \o P.selectedList))

addVisible(P, ts) ==
    createSelector(Uniq(P.selectedList \o visibleLeafIds(ts)))

\* variant: visibility is worked out anew from the props of the render
SelectOnlyVisibleNow(P, ts) ==
    createSelector(SelectSeq(ids(getLeaves(tree)),
                             LAMBDA nodeId : isLeafVisible(createIsLeafVisible(P), nodeId)))

selectOnlyVisible(P, ts) ==
    createSelector(visibleLeafIds(ts))

removeVisible(P, ts) ==
    createSelector(SelectSeq(P.selectedList,
                             LAMBDA nodeId : ~isLeafVisible(ts.isLeafVisible, nodeId)))

RECURSIVE findDescendantsWithOneChild(_,_)
findDescendantsWithOneChild(node, descendant) ==
    LET kids == getNodeChildren(descendant)
        nextNodes == IF getNodeId(node) = getNodeId(descendant) \/ Len(kids) = 1
                     THEN <<getNodeId(descendant)>> ELSE <<>>
        F[i \in 0..Len(kids)] ==
            IF i = 0 THEN <<>> ELSE F[i - 1] \o findDescendantsWithOneChild(node, kids[i])
    IN  nextNodes \o F[Len(kids)]

\* variant: the node is put in front of the list
ToggleExpansionInFront(node, shouldExpandDescendantsWithOneChild, P, ts) ==
    IF ~isActiveSearch(P.isAdditionalFilterApplied, P.isSearchable, P.searchTerm)
       /\ ~isLeaf(node)
    THEN IF getNodeId(node) \in Range(ts.generated.expandedList)
         THEN <<[callback |-> "onExpansionChange",
                 list |-> addOrRemove(ts.generated.expandedList, getNodeId(node))]>>
         ELSE <<[callback |-> "onExpansionChange",
                 list |-> <<getNodeId(node)>> \o ts.generated.expandedList]>>
    ELSE <<>>

toggleExpansion(node, shouldExpandDescendantsWithOneChild, P, ts) ==
    IF ~isActiveSearch(P.isAdditionalFilterApplied, P.isSearchable, P.searchTerm)
       /\ ~isLeaf(node)
    THEN IF ~shouldExpandDescendantsWithOneChild
            \/ getNodeId(node) \in Range(ts.generated.expandedList)
         THEN <<[callback |-> "onExpansionChange",
                 list |-> addOrRemove(ts.generated.expandedList, getNodeId(node))]>>
         ELSE <<[callback |-> "onExpansionChange",
                 list |-> Uniq(ts.generated.expandedList
                                  \o findDescendantsWithOneChild(node, node))]>>
    ELSE <<>>

\* newSelectedList.splice(newSelectedList.indexOf(leafId), 1)
spliceOut(list, leafId) ==
    LET index == CHOOSE i \in 1..Len(list) : list[i] = leafId /\ \A j \in 1..(i - 1) : list[j] # leafId
    IN  SubSeq(list, 1, index - 1) \o SubSeq(list, index + 1, Len(list))

\* the forEach over the leaves of a toggled branch, the first upTo of them done
RECURSIVE toggleLeaves(_,_,_,_)
toggleLeaves(leafNodes, upTo, selected, selectedList) ==
    IF upTo = 0 THEN selectedList
    ELSE LET newSelectedList == toggleLeaves(leafNodes, upTo - 1, selected, selectedList)
             leafId == getNodeId(leafNodes[upTo])
         IN  IF selected /\ leafId \notin Range(newSelectedList)
             THEN Append(newSelectedList, leafId)
             ELSE IF ~selected /\ leafId \in Range(newSelectedList)
                  THEN spliceOut(newSelectedList, leafId)
                  ELSE newSelectedList

\* variant: the leaves of a toggled branch that are not visible are left alone
ToggleSelectionVisibleOnly(node, selected, P) ==
    IF ~P.isSelectable THEN <<>>
    ELSE IF isLeaf(node)
         THEN <<[callback |-> "onSelectionChange",
                 list |-> addOrRemove(P.selectedList, getNodeId(node))]>>
         ELSE LET leafNodes == SelectSeq(getLeaves(node),
                                   LAMBDA l : isLeafVisible(createIsLeafVisible(P), l))
              IN  <<[callback |-> "onSelectionChange",
                     list |-> toggleLeaves(leafNodes, Len(leafNodes), selected,
                                           P.selectedList)]>>

toggleSelection(node, selected, P) ==
    IF ~P.isSelectable THEN <<>>
    ELSE IF isLeaf(node)
         THEN IF P.isMultiPick
              THEN <<[callback |-> "onSelectionChange",
                      list |-> addOrRemove(P.selectedList, getNodeId(node))]>>
              ELSE <<[callback |-> "onSelectionChange", list |-> <<getNodeId(node)>>]>>
         ELSE LET leafNodes == getLeaves(node)
              IN  <<[callback |-> "onSelectionChange",
                     list |-> toggleLeaves(leafNodes, Len(leafNodes), selected,
                                           P.selectedList)]>>

(***************************************************************************)
(* SpecHandlers: the mounted tree with a user who clicks.  A click calls   *)
(* the handler of the latest render; the host renders the tree again with  *)
(* the list a callback was given as the new prop.  Of its own accord the   *)
(* host changes the selected list and the search term only.                *)
(***************************************************************************)
\* the props after the host took the list of the call
adopt(called) ==
    IF called = <<>> THEN props
    ELSE IF called[1].callback = "onSelectionChange"
         THEN [props EXCEPT !.selectedList = called[1].list]
         ELSE [props EXCEPT !.expandedList = Some(called[1].list)]

Click(handler, node, arg, called) ==
    /\ ~effectPending
    /\ edits < MaxRenders
    /\ event' = [handler |-> handler, node |-> node, arg |-> arg, called |-> called]
    /\ props' = adopt(called)
    /\ effectPending' = (adopt(called) # props)
    /\ lastChange' = IF adopt(called) = props THEN lastChange
                     ELSE IF called[1].callback = "onSelectionChange"
                          THEN "selectedList" ELSE "expandedList"
    /\ edits' = edits + 1
    /\ UNCHANGED <<root, treeState, applied, timers, cleanup, burst>>

\* showSelectionLinks and showExpansionLinks of TreeLinks
showSelectionLinks == props.isSelectable /\ props.isMultiPick

showExpansionLinks ==
    ~isActiveSearch(props.isAdditionalFilterApplied, props.isSearchable, props.searchTerm)

ClickExpandAll == showExpansionLinks /\ Click("expandAll", "none", FALSE, expandAll)

ClickExpandNone == showExpansionLinks /\ Click("expandNone", "none", FALSE, expandNone)

ClickSelectAll == showSelectionLinks /\ Click("selectAll", "none", FALSE, selectAll)

ClickSelectNone == showSelectionLinks /\ Click("selectNone", "none", FALSE, selectNone)

ClickAddVisible ==
    showSelectionLinks /\ Click("addVisible", "none", FALSE, addVisible(props, treeState))

ClickSelectOnlyVisible ==
    showSelectionLinks
        /\ Click("selectOnlyVisible", "none", FALSE, selectOnlyVisible(props, treeState))

ClickRemoveVisible ==
    showSelectionLinks /\ Click("removeVisible", "none", FALSE, removeVisible(props, treeState))

\* the nodes whose arrow or checkbox the user clicks: the two inner branches
\* and a leaf
NodesClicked == {"A", "B", "l1"}

ClickToggleExpansion ==
    \E node \in NodesClicked, shouldExpandDescendantsWithOneChild \in BOOLEAN :
        Click("toggleExpansion", node, shouldExpandDescendantsWithOneChild,
              toggleExpansion(node, shouldExpandDescendantsWithOneChild, props, treeState))

ClickToggleSelection ==
    \E node \in NodesClicked, selected \in BOOLEAN :
        Click("toggleSelection", node, selected, toggleSelection(node, selected, props))

NextHandlers ==
    \/ SetSelectedList
    \/ SetSearchTerm
    \/ RunEffect
    \/ Tick
    \/ TimerFire
    \/ ClickExpandAll
    \/ ClickExpandNone
    \/ ClickSelectAll
    \/ ClickSelectNone
    \/ ClickAddVisible
    \/ ClickSelectOnlyVisible
    \/ ClickRemoveVisible
    \/ ClickToggleExpansion
    \/ ClickToggleSelection

SpecHandlers == Init /\ [][NextHandlers]_vars


(***************************************************************************)
(* Properties of one call of applyPropsToStatefulTree (SpecReconcile)      *)
(***************************************************************************)
Result == treeState.generated.statefulTree

Flag(statefulTree, n, field) == Truthy(getNodeState(statefulTree[n]), field)

Flags(statefulTree) == [n \in Nodes |-> getNodeState(statefulTree[n])]

SameObject(n) == Ref(Result[n]) = Ref(root[n])

FieldsChanged(n) == getNodeState(Result[n]) # getNodeState(root[n])

SearchActive ==
    isActiveSearch(props.isAdditionalFilterApplied, props.isSearchable, props.searchTerm)

\* C1: after a reconciliation a branch is selected iff every descendant leaf
\* is selected and no descendant branch is indeterminate.
C1_BranchSelected ==
    \A b \in Branches :
        Flag(Result, b, "isSelected")
            <=> /\ \A l \in DescendantLeaves(b) : Flag(Result, l, "isSelected")
                /\ \A d \in Descendants(b) : ~Flag(Result, d, "isIndeterminate")

\* a fully selected two-leaf branch beside an unselected one
C1_Witness ==
    /\ Flag(Result, "A", "isSelected")
    /\ Flag(Result, "l1", "isSelected") /\ Flag(Result, "l2", "isSelected")
    /\ ~Flag(Result, "B", "isSelected")
    /\ ~Flag(Result, "root", "isSelected")

\* C2: after a reconciliation a branch is indeterminate iff it is not selected
\* and some descendant leaf is selected or some child is indeterminate; no node
\* is both selected and indeterminate.
C2_BranchIndeterminate ==
    /\ \A b \in Branches :
        Flag(Result, b, "isIndeterminate")
            <=> /\ ~Flag(Result, b, "isSelected")
                /\ \/ \E l \in DescendantLeaves(b) : Flag(Result, l, "isSelected")
                   \/ \E i \in 1..Len(getNodeChildren(b)) :
                          Flag(Result, getNodeChildren(b)[i], "isIndeterminate")
    /\ \A n \in Nodes :
        ~(Flag(Result, n, "isSelected") /\ Flag(Result, n, "isIndeterminate"))

\* the root is indeterminate with no indeterminate child: B selected, A not
C2_Witness ==
    /\ Flag(Result, "root", "isIndeterminate")
    /\ Flag(Result, "B", "isSelected")
    /\ ~Flag(Result, "A", "isSelected")
    /\ ~Flag(Result, "A", "isIndeterminate")

\* C3: after a reconciliation a leaf is visible iff the visibility function
\* says so, and a branch is visible iff one of its descendant leaves is.
C3_BranchVisible ==
    /\ \A l \in Leaves :
        Flag(Result, l, "isVisible") <=> isLeafVisible(treeState.isLeafVisible, l)
    /\ \A b \in Branches :
        Flag(Result, b, "isVisible")
            <=> \E l \in DescendantLeaves(b) : Flag(Result, l, "isVisible")

\* a hidden branch beside a visible one with a hidden leaf
C3_Witness ==
    /\ ~Flag(Result, "B", "isVisible")
    /\ Flag(Result, "A", "isVisible")
    /\ ~Flag(Result, "l2", "isVisible")

\* C4: a node of the returned tree is the object it was iff no field of it or
\* of a descendant changed; a replaced node is a new object, and so is every
\* ancestor of it.
C4_IdentityKept ==
    \A n \in Nodes :
        /\ SameObject(n) <=> \A d \in {n} \cup Descendants(n) : ~FieldsChanged(d)
        /\ SameObject(n) => Result[n] = root[n]
        /\ ~SameObject(n) =>
              /\ Result[n].obj \notin ObjsOf({root})
              /\ \A a \in Ancestors(n) : ~SameObject(a)

\* a call on a tree an earlier call returned: one subtree kept, one replaced
C4_Witness ==
    /\ root # createStatefulTree
    /\ SameObject("B") /\ SameObject("l3")
    /\ ~SameObject("l1") /\ ~SameObject("A") /\ ~SameObject("root")
    /\ SameObject("l2")

\* C7: under single-pick a selected list of several ids gives the flags and
\* the expansion list that the list of its first id alone gives.
C7_SinglePickTruncation ==
    (~props.isMultiPick /\ Len(props.selectedList) > 1) =>
        LET first == makeTreeState([props EXCEPT !.selectedList = <<@[1]>>],
                                   root, FreshObj({root}), FreshFn({}))
        IN  /\ Flags(Result) = Flags(first.generated.statefulTree)
            /\ treeState.generated.expandedList = first.generated.expandedList

\* single-pick, two ids supplied: the first is selected, the second is not
C7_Witness ==
    /\ ~props.isMultiPick /\ props.isSelectable
    /\ Len(props.selectedList) > 1
    /\ Flag(Result, props.selectedList[1], "isSelected")
    /\ ~Flag(Result, props.selectedList[2], "isSelected")

C9_SearchForcesExpansion ==
    SearchActive =>
        \A b \in Branches : Flag(Result, b, "isVisible") => Flag(Result, b, "isExpanded")

\* active search, empty list supplied: a visible branch is open, a hidden one shut
C9_Witness ==
    /\ SearchActive
    /\ ~props.expandedList.null /\ Len(props.expandedList.val) = 0
    /\ Flag(Result, "A", "isVisible") /\ Flag(Result, "A", "isExpanded")
    /\ ~Flag(Result, "B", "isVisible") /\ ~Flag(Result, "B", "isExpanded")

\* C10: when the resolver walks the tree a leaf is visible iff the predicate
\* holds of the leaf or of one of its ancestors, and the filtered list is
\* unset or holds the leaf.
C10_VisibilityPropagation ==
    ~treeState.isLeafVisible.const =>
        \A n \in Nodes :
            isLeafVisible(treeState.isLeafVisible, n)
                <=> /\ isLeaf(n)
                    /\ \E m \in {n} \cup Ancestors(n) :
                           searchPredicate(m, parseSearchQueryString(props.searchTerm))
                    /\ (props.filteredList.null \/ n \in Range(props.filteredList.val))

\* a branch matches: its leaf that fails the predicate is visible, and a leaf
\* of the other branch is not
C10_Witness ==
    /\ ~treeState.isLeafVisible.const
    /\ searchPredicate("A", parseSearchQueryString(props.searchTerm))
    /\ ~searchPredicate("l2", parseSearchQueryString(props.searchTerm))
    /\ isLeafVisible(treeState.isLeafVisible, "l2")
    /\ ~isLeafVisible(treeState.isLeafVisible, "l3")

\* the leaves the search matches: the predicate holds of the leaf or of one
\* of its ancestors
SearchMatch(l) ==
    \E m \in {l} \cup Ancestors(l) :
        searchPredicate(m, parseSearchQueryString(props.searchTerm))

\* C11: an empty filtered list makes the visibility function false for every
\* leaf; with no filtered list the visible leaves of an active search are the
\* leaves the search matches, and without an active search the function is
\* the constant true.
C11_FilteredList ==
    /\ (~props.filteredList.null /\ Len(props.filteredList.val) = 0) =>
          \A l \in Leaves : ~isLeafVisible(treeState.isLeafVisible, l)
    /\ (props.filteredList.null /\ SearchActive) =>
          \A l \in Leaves : isLeafVisible(treeState.isLeafVisible, l) <=> SearchMatch(l)
    /\ (props.filteredList.null /\ ~SearchActive) =>
          /\ treeState.isLeafVisible.const
          /\ \A n \in Nodes : isLeafVisible(treeState.isLeafVisible, n)

\* the empty list is supplied while the search matches every leaf of A
C11_Witness ==
    /\ ~props.filteredList.null /\ Len(props.filteredList.val) = 0
    /\ SearchActive
    /\ SearchMatch("l1") /\ SearchMatch("l2")
    /\ ~treeState.isLeafVisible.const
    /\ treeState.isLeafVisible.visibleLeaves = {}
    /\ ~Flag(Result, "l1", "isVisible")

\* what an active search shows in a call's result: with no filtered list the
\* visibility function is not the constant one, and with an expansion list
\* supplied a visible branch the list does not hold is open
SearchShowsAs(active) ==
    /\ props.filteredList.null => (~treeState.isLeafVisible.const <=> active)
    /\ ~props.expandedList.null =>
          \A b \in Branches :
              (Flag(Result, b, "isVisible") /\ b \notin Range(props.expandedList.val))
                  => (Flag(Result, b, "isExpanded") <=> active)

\* C16 as stated: a search is active iff the search term is not empty or the
\* additional-filter flag is set, whatever isSearchable is.
C16_ActiveIffFiltered ==
    SearchShowsAs(isFiltered(props.searchTerm, props.isAdditionalFilterApplied))

\* C16 amended: a search is active iff the tree is searchable and the search
\* term is not empty or the additional-filter flag is set.
C16_ActiveIffSearchableAndFiltered ==
    SearchShowsAs(props.isSearchable
                  /\ (Len(props.searchTerm) > 0 \/ props.isAdditionalFilterApplied))

\* a term is typed into a tree that is not searchable: the visibility function
\* is the constant one and a visible branch outside the supplied list is shut
C16_Witness ==
    /\ ~props.isSearchable /\ Len(props.searchTerm) > 0
    /\ props.filteredList.null /\ treeState.isLeafVisible.const
    /\ ~props.expandedList.null /\ "B" \notin Range(props.expandedList.val)
    /\ Flag(Result, "B", "isVisible") /\ ~Flag(Result, "B", "isExpanded")

\* no expansion list is supplied: the tree generates it
AutoMode == props.expandedList.null

SelectedBelow(b) == {l \in DescendantLeaves(b) : Flag(Result, l, "isSelected")}

MixedBelow(b) == SelectedBelow(b) # {} /\ SelectedBelow(b) # DescendantLeaves(b)

\* C17: when the tree generates the expanded list and no search is active, a
\* branch is collapsed if all or none of its descendant leaves are selected
\* and expanded if some but not all are.
C17_AutoExpansion ==
    (AutoMode /\ ~SearchActive) =>
        \A b \in Branches : Flag(Result, b, "isExpanded") <=> MixedBelow(b)

LeafFlags == {"isSelected", "isVisible"}

BranchFlags == {"isSelected", "isVisible", "isExpanded", "isIndeterminate"}

FlagsCarried(statefulTree) ==
    \A n \in Nodes :
        DOMAIN getNodeState(statefulTree[n]) = IF isLeaf(n) THEN LeafFlags ELSE BranchFlags

\* C19: a leaf carries isSelected and isVisible only and a branch all four
\* flags, in the built tree and in every tree a call is given or returns; in
\* the built tree every node is unselected and visible and every branch
\* collapsed and not indeterminate.
C19_FlagsCarried ==
    /\ FlagsCarried(createStatefulTree)
    /\ FlagsCarried(root)
    /\ FlagsCarried(Result)
    /\ \A n \in Nodes :
          /\ ~getNodeState(createStatefulTree[n]).isSelected
          /\ getNodeState(createStatefulTree[n]).isVisible
    /\ \A b \in Branches :
          /\ ~getNodeState(createStatefulTree[b]).isExpanded
          /\ ~getNodeState(createStatefulTree[b]).isIndeterminate

\* a call on a tree an earlier call returned replaces a leaf and a branch
C19_Witness ==
    /\ root # createStatefulTree
    /\ ~SameObject("l1") /\ Flag(Result, "l1", "isSelected")
    /\ ~SameObject("A") /\ Flag(Result, "A", "isIndeterminate")

\* C20: a call leaves the objects of the tree it is given as they were: an
\* object or a state object found in both trees holds what it held, and what
\* changed is held by objects the call created.
C20_InputNotMutated ==
    \A n \in Nodes :
        /\ Result[n].obj = root[n].obj =>
              /\ getNodeState(Result[n]) = getNodeState(root[n])
              /\ getStatefulChildren(Result[n]) = getStatefulChildren(root[n])
              /\ Result[n].stateObj = root[n].stateObj
        /\ Result[n].stateObj = root[n].stateObj =>
              getNodeState(Result[n]) = getNodeState(root[n])
        /\ Result[n] # root[n] =>
              /\ Result[n].obj \notin ObjsOf({root})
              /\ Result[n].stateObj \notin ObjsOf({root})

\* a call on a tree an earlier call returned changes the state of one subtree
C20_Witness ==
    /\ root # createStatefulTree
    /\ FieldsChanged("l3") /\ FieldsChanged("B") /\ FieldsChanged("root")
    /\ ~FieldsChanged("A")

\* what the call returns for the props with the expanded list left out
Generated ==
    applyPropsToStatefulTree(root, [props EXCEPT !.expandedList = Null],
                             treeState.isLeafVisible, Null, FreshObj({root}))

ExpansionOf(result) ==
    [b \in Branches |-> Truthy(getNodeState(result.statefulTree[b]), "isExpanded")]

\* C22: with the expanded-list prop null or empty the expansion is the one
\* generated from the selection; a supplied list that is not empty is used as
\* given.
C22_EmptyListGenerated ==
    /\ (props.expandedList.null \/ Len(props.expandedList.val) = 0) =>
          /\ treeState.generated.expandedList = Generated.expandedList
          /\ ExpansionOf(treeState.generated) = ExpansionOf(Generated)
    /\ (~props.expandedList.null /\ Len(props.expandedList.val) > 0) =>
          /\ Range(treeState.generated.expandedList) = Range(props.expandedList.val)
          /\ ~SearchActive =>
                \A b \in Branches :
                    Flag(Result, b, "isExpanded") <=> b \in Range(props.expandedList.val)

\* C24 as stated: without an active search the predicate is not called and
\* hides no leaf.
C24_PredicateOnlyInSearch ==
    ~SearchActive =>
        /\ searchPredicateCalls(props) = {}
        /\ \A l \in Leaves :
               leafPassesFilter(l, props.filteredList)
                   => isLeafVisible(treeState.isLeafVisible, l)

\* C24 amended: without an active search and without a filtered list the
\* predicate is not called and every leaf is visible; the predicate is called
\* only when a search is active or a filtered list is supplied.
C24_PredicateOnlyWhenFiltering ==
    /\ (~SearchActive /\ props.filteredList.null) =>
          /\ searchPredicateCalls(props) = {}
          /\ \A l \in Leaves : isLeafVisible(treeState.isLeafVisible, l)
    /\ searchPredicateCalls(props) # {} =>
          (SearchActive \/ ~props.filteredList.null)

\* a term the predicate rejects l2 for, in a tree that is not searchable and
\* has no filtered list: l2 is visible
C24_Witness ==
    /\ ~props.isSearchable /\ ~props.isAdditionalFilterApplied
    /\ props.filteredList.null
    /\ props.searchTerm = <<"l">>
    /\ ~SearchMatch("l2")
    /\ isLeafVisible(treeState.isLeafVisible, "l2")
    /\ Flag(Result, "l2", "isVisible")

\* the branches expanded in the returned tree, children before parents
ExpandedBranches ==
    SelectSeq(PostOrderOfTree, LAMBDA n : ~isLeaf(n) /\ Flag(Result, n, "isExpanded"))

FirstIndex(list, id) == CHOOSE i \in 1..Len(list) : list[i] = id /\ \A j \in 1..(i - 1) : list[j] # id

\* list holds the ids of supplied once each, in the order they first occur
FirstOccurrences(list, supplied) ==
    /\ Range(list) = Range(supplied)
    /\ \A i, j \in 1..Len(list) :
           i < j => FirstIndex(supplied, list[i]) < FirstIndex(supplied, list[j])

EffectRuns == effectPending /\ ~effectPending'

\* the timers whose callback this step runs
Fired ==
    IF effectPending \/ effectPending' THEN {}
    ELSE {t \in timers : \A u \in timers' : u.id # t.id}

UpdatePerformed ==
    \/ EffectRuns /\ Len(props.searchTerm) = 0
    \/ Fired # {}

Exposed == treeState.generated.statefulTree

\* node n of the tree exposed after the step is not the object exposed before
Replaced(n) == Ref(Exposed'[n]) # Ref(Exposed[n])

\* C5: a reconciliation run again with the inputs of the run before it returns
\* the root that run returned and creates no node object.
C5_Idempotent ==
    [][(UpdatePerformed /\ applied = props) =>
          /\ ~Replaced(tree)
          /\ ObjsOf({Exposed'}) \subseteq ObjsOf({Exposed})]_vars

\* the props differ from those of the run before by a toggle of leaf's selection
OnlySelectionToggled(leaf) ==
    /\ props.isSelectable /\ props.isMultiPick
    /\ props = [applied EXCEPT !.selectedList = addOrRemove(@, leaf)]

\* C6: when only leaf L's selection was toggled since the run before, the
\* nodes replaced in the exposed tree are L and the ancestors of L, no other.
C6_Locality ==
    [][\A leaf \in Leaves :
          (UpdatePerformed /\ OnlySelectionToggled(leaf)) =>
              \A n \in Nodes : Replaced(n) <=> n \in {leaf} \cup Ancestors(leaf)]_vars

\* the step a search-term edit is debounced by: nothing is recomputed and the
\* one timer left starts the quiet period over, with the props of the edit
Debounced ==
    /\ treeState' = treeState
    /\ applied' = applied
    /\ \E t \in timers' : timers' = {t} /\ t.elapsed = 0 /\ t.props = props

\* a timer fires one quiet period after it was set, recomputes with the
\* current props and leaves no timer behind
FiredAfterQuiet ==
    \A t \in Fired :
        /\ t.elapsed = DebounceDelay
        /\ t.props = props
        /\ applied' = props
        /\ timers' = {}

\* C12 as stated: every search-term edit is debounced, whatever the term, and
\* the recomputation fires one quiet period after the last edit with the
\* final term.
C12_DebounceEveryBurst ==
    [][/\ (EffectRuns /\ lastChange = "searchTerm") => Debounced
       /\ FiredAfterQuiet]_vars

\* C12 amended: an edit to a term that is not empty is debounced and the
\* recomputation fires one quiet period after the last edit with the final
\* term; an edit that empties the term recomputes at once and leaves no timer.
C12_DebounceNonEmptyTerm ==
    [][/\ (EffectRuns /\ lastChange = "searchTerm") =>
              IF Len(props.searchTerm) > 0
              THEN Debounced
              ELSE applied' = props /\ timers' = {}
       /\ FiredAfterQuiet]_vars

\* two edits of the term in a row, the quiet period after the second is over
\* and nothing was recomputed in between
C12_Witness ==
    /\ ~effectPending
    /\ burst = 2
    /\ Len(props.searchTerm) > 0
    /\ props.searchTerm # applied.searchTerm
    /\ \E t \in timers : t.elapsed = DebounceDelay /\ t.props = props

\* C13: a change of a prop other than the search term is recomputed and
\* exposed by the effect of its render, with no timer, whatever the search
\* term is.
C13_OtherChangesImmediate ==
    [][(EffectRuns /\ lastChange \notin {"mount", "searchTerm"}) =>
          (UpdatePerformed /\ applied' = props)]_vars

\* C14: at most one timer is pending; once the effect of a render has run a
\* pending timer is the one that render scheduled, and with no timer pending
\* the exposed state is the one of the current props.
C14_OnePending ==
    /\ Cardinality(timers) <= 1
    /\ ~effectPending => \A t \in timers : t.props = props
    /\ (~effectPending /\ timers = {}) => applied = props

\* the selection changed while the timer of a term edit was pending: that
\* timer is gone and the one timer left was set for the current props
C14_Witness ==
    /\ ~effectPending
    /\ burst = 1 /\ lastChange = "selectedList"
    /\ \E t \in timers : timers = {t} /\ t.elapsed = 0 /\ t.props = props
    /\ applied # props

\* C15: the tree a recomputation hands to applyPropsToStatefulTree is the
\* tree exposed before it, and the tree of createStatefulTree is built once.
C15_PreviousTreeIsInput ==
    [][/\ root' = root
       /\ UpdatePerformed => root = Exposed]_vars

\* C25: an update for props whose search and filter inputs are those of the
\* update before it keeps the visibility function it found.
SearchInputs(P) ==
    <<P.searchTerm, P.isAdditionalFilterApplied, P.isSearchable, P.filteredList>>

C25_ResolverReused ==
    [][(UpdatePerformed /\ SearchInputs(applied') = SearchInputs(applied)) =>
          treeState'.isLeafVisibleObj = treeState.isLeafVisibleObj]_vars

\* what reconciling the current props gives
Current ==
    makeTreeState(props, createStatefulTree, FreshObj({createStatefulTree}), FreshFn({}))

\* the exposed tree, expansion list and visibility function are those of the
\* current props
Consistent ==
    /\ treeState.isLeafVisible = Current.isLeafVisible
    /\ treeState.generated.expandedList = Current.generated.expandedList
    /\ Flags(Exposed) = Flags(Current.generated.statefulTree)

\* every render was processed and no recomputation is pending
Quiet == ~effectPending /\ timers = {}

\* the recomputation for the current props is at most one quiet period away
WithinQuietPeriod ==
    \E t \in timers : t.props = props /\ t.elapsed <= DebounceDelay

\* C29: once a change is processed the exposed tree, expansion list and
\* visibility function are those of the current props, or the recomputation
\* for the current props is pending and no more than a quiet period has passed
\* since the change; with an empty search term they are those of the current
\* props at once, and they stay so while nothing is pending.
C29_ConsistentWithinQuietPeriod ==
    /\ ~effectPending => (WithinQuietPeriod \/ Consistent)
    /\ (~effectPending /\ Len(props.searchTerm) = 0) => Quiet
    /\ Quiet => Consistent

\* the timer of the last change has fired: what it exposed is the state of
\* the current props, which is not the state exposed before it
C29_Witness ==
    /\ Quiet
    /\ Len(props.searchTerm) > 0
    /\ edits = MaxRenders
    /\ lastChange = "selectedList"
    /\ Flag(Exposed, "l1", "isSelected")
    /\ Consistent

(***************************************************************************)
(* Properties of the handlers (SpecHandlers)                               *)
(***************************************************************************)
\* the step called handler
Handled(handler) == event'.handler = handler

\* the handler called made one call, of callback with list
Called(callback, list) == event'.called = <<[callback |-> callback, list |-> list]>>

\* the visibility the rendered tree shows
Shown(l) == isLeafVisible(treeState.isLeafVisible, l)

\* C21: a bulk action calls its callback once with the whole list: all leaves
\* in traversal order, the empty list, all branches, the selected list followed
\* by the visible leaves not in it, the visible leaves, the selected list
\* without the visible leaves.
C21_BulkActions ==
    [][/\ Handled("selectAll") => Called("onSelectionChange", <<"l1", "l2", "l3">>)
       /\ Handled("selectNone") => Called("onSelectionChange", <<>>)
       /\ Handled("expandNone") => Called("onExpansionChange", <<>>)
       /\ Handled("expandAll") =>
              /\ Len(event'.called) = 1
              /\ event'.called[1].callback = "onExpansionChange"
              /\ Range(event'.called[1].list) = Branches
              /\ Len(event'.called[1].list) = Cardinality(Branches)
       /\ Handled("addVisible") =>
              Called("onSelectionChange",
                     props.selectedList
                         \o SelectSeq(<<"l1", "l2", "l3">>,
                                      LAMBDA l : Shown(l) /\ l \notin Range(props.selectedList)))
       /\ Handled("selectOnlyVisible") =>
              Called("onSelectionChange", SelectSeq(<<"l1", "l2", "l3">>, Shown))
       /\ Handled("removeVisible") =>
              Called("onSelectionChange",
                     SelectSeq(props.selectedList, LAMBDA l : ~Shown(l)))]_vars

\* l3 selected, a search that shows l1 and l3: 'add these' passed l3, then l1
C21_Witness ==
    /\ event.handler = "addVisible"
    /\ event.called = <<[callback |-> "onSelectionChange", list |-> <<"l3", "l1">>]>>
    /\ props.selectedList = <<"l3", "l1">>

\* C23: a click on the checkbox of a leaf, which shows the leaf as the
\* rendered tree has it, passes a list with the leaf's id iff the click selects
\* it, the other ids kept; multi-pick mode.
C23_LeafToggle ==
    [][(/\ Handled("toggleSelection")
        /\ isLeaf(event'.node)
        /\ props.isSelectable /\ props.isMultiPick
        /\ event'.arg = ~Flag(Exposed, event'.node, "isSelected")) =>
          /\ Len(event'.called) = 1
          /\ event'.called[1].callback = "onSelectionChange"
          /\ event'.node \in Range(event'.called[1].list) <=> event'.arg
          /\ SelectSeq(event'.called[1].list, LAMBDA l : l # event'.node)
                 = SelectSeq(props.selectedList, LAMBDA l : l # event'.node)]_vars

\* C27: toggleExpansion calls nothing during an active search or for a leaf;
\* with one-child expansion off or the node expanded it passes the exposed
\* expansion list without the node's id if it was in it, with the id appended
\* if not.
C27_ToggleExpansion ==
    [][Handled("toggleExpansion") =>
          IF SearchActive \/ isLeaf(event'.node)
          THEN event'.called = <<>>
          ELSE (~event'.arg \/ event'.node \in Range(treeState.generated.expandedList)) =>
                   IF event'.node \in Range(treeState.generated.expandedList)
                   THEN Called("onExpansionChange",
                               SelectSeq(treeState.generated.expandedList,
                                         LAMBDA b : b # event'.node))
                   ELSE Called("onExpansionChange",
                               Append(treeState.generated.expandedList, event'.node))]_vars

\* A was the expanded list: toggling B passed A, then B
C27_Witness ==
    /\ event.handler = "toggleExpansion" /\ event.node = "B"
    /\ treeState.generated.expandedList = <<"A">>
    /\ event.called = <<[callback |-> "onExpansionChange", list |-> <<"A", "B">>]>>

\* what reconciling the props with selectedList replaced by list gives
Reconciled(list) ==
    makeTreeState([props EXCEPT !.selectedList = list], root,
                  FreshObj({root}), FreshFn({})).generated.statefulTree

\* C28: the list a toggle of a branch passes, reconciled, gives the branch
\* isSelected as toggled and not indeterminate, leaves the leaves outside the
\* branch as selected as they were and holds the leaves of the branch, visible
\* or not, iff the toggle selects; selectable multi-pick mode.
C28_BranchToggleRoundTrip ==
    [][(/\ Handled("toggleSelection")
        /\ ~isLeaf(event'.node)
        /\ props.isSelectable /\ props.isMultiPick) =>
          /\ Len(event'.called) = 1
          /\ event'.called[1].callback = "onSelectionChange"
          /\ LET after == Reconciled(event'.called[1].list)
             IN  /\ Flag(after, event'.node, "isSelected") <=> event'.arg
                 /\ ~Flag(after, event'.node, "isIndeterminate")
                 /\ \A l \in Leaves \ DescendantLeaves(event'.node) :
                        Flag(after, l, "isSelected") <=> l \in Range(props.selectedList)
                 /\ \A l \in DescendantLeaves(event'.node) :
                        l \in Range(event'.called[1].list) <=> event'.arg]_vars

\* l3 selected and a search that hides l2: selecting A passed l3, l1 and l2,
\* and with that list A is selected
C28_Witness ==
    /\ event.handler = "toggleSelection" /\ event.node = "A" /\ event.arg
    /\ event.called = <<[callback |-> "onSelectionChange", list |-> <<"l3", "l1", "l2">>]>>
    /\ ~isLeafVisible(createIsLeafVisible(props), "l2")
    /\ Flag(Reconciled(props.selectedList), "A", "isSelected")
    /\ Flag(Reconciled(props.selectedList), "l3", "isSelected")

\* the visibility of the current search and filter inputs
VisibleNow(l) == isLeafVisible(createIsLeafVisible(props), l)

\* the lists the three actions pass when visible is the set of visible leaves
VisibleActionsUse(visible) ==
    /\ Handled("addVisible") =>
           Called("onSelectionChange",
                  props.selectedList
                      \o SelectSeq(<<"l1", "l2", "l3">>,
                                   LAMBDA l : l \in visible /\ l \notin Range(props.selectedList)))
    /\ Handled("selectOnlyVisible") =>
           Called("onSelectionChange",
                  SelectSeq(<<"l1", "l2", "l3">>, LAMBDA l : l \in visible))
    /\ Handled("removeVisible") =>
           Called("onSelectionChange",
                  SelectSeq(props.selectedList, LAMBDA l : l \notin visible))

\* C30 as stated: the three actions decide visibility by the current search
\* term and filter inputs, at every moment.
C30_CurrentVisibility ==
    [][VisibleActionsUse({l \in Leaves : VisibleNow(l)})]_vars

\* C30 amended: the three actions decide visibility by the visibility function
\* of the exposed tree state; with no recomputation pending that is the one
\* of the current search term and filter inputs.
C30_ExposedVisibility ==
    [][/\ VisibleActionsUse({l \in Leaves : Shown(l)})
       /\ Quiet => VisibleActionsUse({l \in Leaves : VisibleNow(l)})]_vars

\* 'select only these' clicked while the timer of a term edit is pending: the
\* list is that of the term before the edit
C30_Witness ==
    /\ event.handler = "selectOnlyVisible"
    /\ timers # {}
    /\ applied.searchTerm # props.searchTerm
    /\ event.called[1].list = SelectSeq(<<"l1", "l2", "l3">>, Shown)
    /\ event.called[1].list # SelectSeq(<<"l1", "l2", "l3">>, VisibleNow)

====
